---- MODULE Spec2Model ----
(***************************************************************************)
(* Model of analysis/fdg_pilot_analysis.py: the batch pipeline main() runs *)
(* over the session table (participants) and the action table (actions).   *)
(* One action per pipeline stage; a stage that raises an uncaught Python   *)
(* exception moves the run to "aborted".                                   *)
(*                                                                         *)
(* Floating-point results are kept exact:                                  *)
(*   [kind |-> "num",  num, den]        the rational num/den (den > 0)     *)
(*   [kind |-> "root", sign, num, den]  sign * sqrt(num/den)               *)
(*   [kind |-> "inf",  sign]            +-infinity                         *)
(*   [kind |-> "nan"]                   float NaN                          *)
(* Python's None is [kind |-> "None"]; a DataFrame is [kind |-> "DataFrame", *)
(* rows |-> its rows]; the LaTeX text is [kind |-> "str", rows |-> the     *)
(* values formatted into its lines].                                       *)
(***************************************************************************)
EXTENDS Integers, Sequences, FiniteSets, TLC

VARIABLES
    participants,        \* session table (DataFrame), a sequence of rows
    actions,             \* action table (DataFrame), a sequence of rows
    loaded_actions,      \* the action table as load_data() returned it
    loaded_participants, \* the session table as load_data() returned it
    statsmodels,         \* "unloaded" | "imported" | "ImportError"
    pc,                  \* the statement of main() to run next
    error,               \* the uncaught exception that ended the run, or None
    action_counts,       \* main(): result of descriptive_statistics
    mode_results,        \* main(): result of mode_comparison_ttest
    reasoning_results,   \* main(): result of reasoning_quality_analysis
    model_results,       \* main(): result of model_anova
    anova_table,         \* main(): result of two_way_anova
    completion,          \* plot_completion_rates: the completion table
    latex_table          \* main(): result of generate_latex_table (its rows)

vars == <<participants, actions, loaded_actions, loaded_participants, statsmodels,
          pc, error, action_counts, mode_results, reasoning_results,
          model_results, anova_table, completion, latex_table>>

---------------------------------------------------------------------------
(* Bounds of the model *)

MaxSessions == 3
MaxActions == 5
MaxUnit == 4

---------------------------------------------------------------------------
(* Values *)

NA == "NA"                          \* a missing cell of a table (pandas NaN)
None == [kind |-> "None"]
nan == [kind |-> "nan"]
Inf(s) == [kind |-> "inf", sign |-> s]
Num(n, d) == [kind |-> "num", num |-> n, den |-> d]
Root(s, n, d) == [kind |-> "root", sign |-> s, num |-> n, den |-> d]
DataFrame(rows) == [kind |-> "DataFrame", rows |-> rows]

Sign(x) == IF x > 0 THEN 1 ELSE IF x < 0 THEN -1 ELSE 0

models == <<"llama3.2:3b", "qwen2.5vl:7b", "gemma3:27b", "deepcoder:14b">>
modes == <<"individual", "team">>

Range(s) == {s[i] : i \in DOMAIN s}

---------------------------------------------------------------------------
(* pandas Series: a function from an index set to numbers *)

RECURSIVE SeriesSum(_)
SeriesSum(s) ==
    IF DOMAIN s = {} THEN 0
    ELSE LET i == CHOOSE j \in DOMAIN s : TRUE
         IN s[i] + SeriesSum([j \in DOMAIN s \ {i} |-> s[j]])

len(s) == Cardinality(DOMAIN s)

SumSq(s) == SeriesSum([i \in DOMAIN s |-> s[i] * s[i]])

\* n * sum((x - mean)^2), an integer
ScaledSS(s) == len(s) * SumSq(s) - SeriesSum(s) * SeriesSum(s)

\* Series.mean(): NaN on an empty series
mean(s) == IF len(s) = 0 THEN nan ELSE Num(SeriesSum(s), len(s))

\* Series.std(): ddof = 1, NaN when there are fewer than 2 values
std(s) ==
    IF len(s) < 2 THEN nan
    ELSE Root(Sign(ScaledSS(s)), ScaledSS(s), len(s) * (len(s) - 1))

---------------------------------------------------------------------------
(* pandas tables *)

\* the rows of tbl that satisfy no requested factor being missing; groupby's
\* default dropna=True leaves the other rows out of every group
ValidRows(tbl, keys) ==
    {i \in DOMAIN tbl : \A k \in keys \ {"participantId"} : tbl[i][k] # NA}

KeyOf(row, keys) == [k \in keys |-> row[k]]

\* a group-by that keeps every combination of unit and factor levels, the
\* unobserved ones with size 0
groupby_size_unobserved(tbl, keys) ==
    LET valid == ValidRows(tbl, keys)
        Combo(i, j) == [k \in keys |-> IF k = "participantId" THEN tbl[i][k] ELSE tbl[j][k]]
    IN {Combo(i, j) @@
          ("actions" :> Cardinality({h \in valid : KeyOf(tbl[h], keys) = Combo(i, j)}))
        : i \in valid, j \in valid}

\* tbl.groupby(keys).size().reset_index(name='actions'): one row per distinct
\* key combination present in the table, with the number of its records
groupby_size(tbl, keys) ==
    LET valid == ValidRows(tbl, keys)
    IN {KeyOf(tbl[i], keys) @@
          ("actions" :> Cardinality({j \in valid : KeyOf(tbl[j], keys) = KeyOf(tbl[i], keys)}))
        : i \in valid}

\* counts[counts[col] == val]['actions']
ActionsWhere(counts, col, val) ==
    [r \in {q \in counts : q[col] = val} |-> r.actions]

\* sum of the sizes of the groups of a count table
GroupedRecords(counts) == SeriesSum([r \in counts |-> r.actions])

\* column.unique() of a count table
Levels(counts, col) == {r[col] : r \in counts}

---------------------------------------------------------------------------
(* Two-sample statistics *)

\* numerator of mean(a) - mean(b) over the denominator len(a) * len(b)
DiffNum(a, b) == SeriesSum(a) * len(b) - SeriesSum(b) * len(a)

\* np.sqrt(((n1-1)*sd1**2 + (n2-1)*sd2**2) / (n1+n2-2)); a std of NaN (fewer
\* than 2 values) makes the whole expression NaN
pooled_std(a, b) ==
    IF len(a) < 2 \/ len(b) < 2 THEN nan
    ELSE LET pn == ScaledSS(a) * len(b) + ScaledSS(b) * len(a)
             pd == len(a) * len(b) * (len(a) + len(b) - 2)
         IN Root(Sign(pn), pn, pd)

\* (a.mean() - b.mean()) / pooled_std in numpy float arithmetic: a zero
\* divisor gives +-inf, or NaN for 0/0, and raises nothing
cohens_d(a, b) ==
    LET p == pooled_std(a, b)
        dn == DiffNum(a, b)
    IN IF p.kind = "nan" THEN nan
       ELSE IF p.num = 0 THEN (IF dn = 0 THEN nan ELSE Inf(Sign(dn)))
       ELSE Root(Sign(dn), dn * dn * p.den, len(a) * len(a) * len(b) * len(b) * p.num)

\* scipy.stats.ttest_ind(a, b, equal_var=False): <<t, p>>. The p-value of a
\* finite t is the t distribution's two-sided tail, kept symbolic.
ttest_ind(a, b) ==
    IF len(a) < 2 \/ len(b) < 2 THEN <<nan, nan>>
    ELSE LET dn == DiffNum(a, b)
             tn == ScaledSS(a) * len(b) * len(b) * (len(b) - 1)
                   + ScaledSS(b) * len(a) * len(a) * (len(a) - 1)
         IN IF tn = 0
            THEN (IF dn = 0 THEN <<nan, nan>> ELSE <<Inf(Sign(dn)), Num(0, 1)>>)
            ELSE LET t == Root(Sign(dn), dn * dn * (len(a) - 1) * (len(b) - 1), tn)
                 IN <<t, [kind |-> "two_sided_p", t |-> t]>>

\* scipy.stats.f_oneway(*groups) for at least two non-empty groups: with no
\* within-group variation F is NaN (all values equal) or infinite; otherwise
\* the F statistic and its p-value are kept symbolic
f_oneway(groups) ==
    IF \A g \in groups : ScaledSS(g) = 0
    THEN IF Cardinality(UNION {Range(g) : g \in groups}) <= 1
         THEN [kind |-> "dict", f |-> nan, p |-> nan]
         ELSE [kind |-> "dict", f |-> Inf(1), p |-> Num(0, 1)]
    ELSE [kind |-> "dict", f |-> [kind |-> "F"], p |-> [kind |-> "F_p"]]

---------------------------------------------------------------------------
(* Input tables *)

\* the two models that occur in the modelled input tables
DataModels == {models[1], models[2]}

States == {"COMPLETE", "EXCLUDED", "ACTIVE"}

SeqsUpTo(S, n) == UNION {[1..k -> S] : k \in 0..n}

\* rank of a row inside its domain, used to list each table once (its rows in
\* rank order) instead of once per permutation of its rows
Pos(seq, x) == CHOOSE i \in DOMAIN seq : seq[i] = x

Sorted(ranks) == \A i \in 1..(Len(ranks) - 1) : ranks[i] <= ranks[i + 1]

SessionRank(r) ==
    Pos(modes, r.mode) * 100 + Pos(models, r.model) * 10
    + Pos(<<"COMPLETE", "EXCLUDED", "ACTIVE">>, r.state)

\* session tables: one row per session, participantId = row number
SessionTables ==
    {[i \in DOMAIN t |-> [participantId |-> i, mode |-> t[i].mode,
                          model |-> t[i].model, state |-> t[i].state]]
     : t \in {u \in SeqsUpTo([mode : Range(modes), model : DataModels, state : States],
                             MaxSessions) : Sorted([i \in DOMAIN u |-> SessionRank(u[i])])}}

\* the study design: the condition a unit was assigned to
DesignMode(u) == modes[((u - 1) % 2) + 1]
DesignModel(u) == models[(((u - 1) \div 2) % 2) + 1]

\* the session table of the design: units 1..MaxUnit, all complete
DesignSessions ==
    [u \in 1..MaxUnit |-> [participantId |-> u, mode |-> DesignMode(u),
                           model |-> DesignModel(u), state |-> "COMPLETE"]]

\* one action per session, carrying the session's condition
OneActionEach(p) ==
    [i \in DOMAIN p |-> [participantId |-> p[i].participantId, mode |-> p[i].mode,
                         model |-> p[i].model, reasoning |-> "a"]]

IsComplete(row) == row.state = "COMPLETE"

UnitRank(r) == r.participantId * 10 + (IF r.missing THEN 1 ELSE 0)

\* action tables of the design's units; an action's mode may be missing
UnitActionTables ==
    {[i \in DOMAIN t |-> [participantId |-> t[i].participantId,
                          mode |-> IF t[i].missing THEN NA ELSE DesignMode(t[i].participantId),
                          model |-> DesignModel(t[i].participantId),
                          reasoning |-> "a"]]
     : t \in {u \in SeqsUpTo([participantId : 1..MaxUnit, missing : BOOLEAN], MaxActions)
              : Sorted([i \in DOMAIN u |-> UnitRank(u[i])])}}

Reasonings == <<NA, "", "a", "bb">>

ReasoningRank(r) == Pos(modes, r.mode) * 10 + Pos(Reasonings, r.reasoning)

\* action tables of unit 1 and unit 2 with every kind of reasoning text
ReasoningActionTables ==
    {[i \in DOMAIN t |-> [participantId |-> Pos(modes, t[i].mode), mode |-> t[i].mode,
                          model |-> DesignModel(Pos(modes, t[i].mode)),
                          reasoning |-> t[i].reasoning]]
     : t \in {u \in SeqsUpTo([mode : Range(modes), reasoning : Range(Reasonings)], MaxActions)
              : Sorted([i \in DOMAIN u |-> ReasoningRank(u[i])])}}

TypeOK ==
    /\ pc \in {"descriptive_statistics", "mode_comparison_ttest",
               "reasoning_quality_analysis", "model_anova", "two_way_anova",
               "plot_action_counts_by_mode", "plot_reasoning_length_comparison",
               "plot_heatmap_by_condition", "plot_completion_rates",
               "generate_latex_table", "done", "aborted"}
    /\ statsmodels \in {"unloaded", "imported", "ImportError"}

\* the state main() is in once load_data() has returned
Init ==
    /\ \/ /\ participants \in SessionTables
          /\ actions \in {<<>>, OneActionEach(participants),
                          OneActionEach(SelectSeq(participants, IsComplete))}
       \/ /\ participants = DesignSessions
          /\ actions \in UnitActionTables \cup ReasoningActionTables
    /\ loaded_actions = actions
    /\ loaded_participants = participants
    /\ statsmodels = "unloaded"
    /\ pc = "descriptive_statistics"
    /\ error = "none"
    /\ action_counts = None
    /\ mode_results = None
    /\ reasoning_results = None
    /\ model_results = None
    /\ anova_table = None
    /\ completion = None
    /\ latex_table = None

---------------------------------------------------------------------------
(* main(): one action per stage *)

\* an uncaught exception ends main()
Raise(exc) == pc' = "aborted" /\ error' = exc

Goto(stage) == pc' = stage /\ error' = error

SessionsWhere(col, val) == {i \in DOMAIN participants : participants[i][col] = val}

Completed(rows) == {i \in rows : participants[i].state = "COMPLETE"}

\* lines 55 and 63: completed/total*100 and comp/n*100 divide Python ints, so
\* an empty session table or a mode without sessions raises
descriptive_statistics ==
    /\ pc = "descriptive_statistics"
    /\ IF \/ Len(participants) = 0
          \/ \E m \in Range(modes) : SessionsWhere("mode", m) = {}
       THEN /\ Raise("ZeroDivisionError")
            /\ UNCHANGED action_counts
       ELSE /\ action_counts' = DataFrame(groupby_size(actions, {"participantId", "mode"}))
            /\ Goto("mode_comparison_ttest")
    /\ UNCHANGED <<participants, actions, loaded_actions, loaded_participants,
                   statsmodels, mode_results, reasoning_results, model_results,
                   anova_table, completion, latex_table>>

\* the dict a two-sample comparison returns
TwoSample(a, b) ==
    [kind |-> "dict", t |-> ttest_ind(a, b)[1], p |-> ttest_ind(a, b)[2],
     d |-> cohens_d(a, b)]

mode_comparison_ttest ==
    /\ pc = "mode_comparison_ttest"
    /\ LET indiv == ActionsWhere(action_counts.rows, "mode", "individual")
           team == ActionsWhere(action_counts.rows, "mode", "team")
       IN mode_results' = TwoSample(indiv, team)
    /\ Goto("reasoning_quality_analysis")
    /\ UNCHANGED <<participants, actions, loaded_actions, loaded_participants,
                   statsmodels, action_counts, reasoning_results, model_results,
                   anova_table, completion, latex_table>>

\* actions['reasoning'].fillna('').str.len() of one row
ReasoningLen(row) == IF row.reasoning = NA THEN 0 ELSE Len(row.reasoning)

\* actions['reasoning_len'] = ...: the column is added to the caller's table
WithReasoningLen(tbl) ==
    [i \in DOMAIN tbl |-> ("reasoning_len" :> ReasoningLen(tbl[i])) @@ tbl[i]]

\* tbl[tbl['mode'] == m]['reasoning_len'], zero lengths filtered out
ReasoningWhere(tbl, m) ==
    [i \in {j \in DOMAIN tbl : tbl[j].mode = m /\ tbl[j].reasoning_len > 0}
       |-> tbl[i].reasoning_len]

reasoning_quality_analysis ==
    /\ pc = "reasoning_quality_analysis"
    /\ actions' = WithReasoningLen(actions)
    /\ LET indiv_reasoning == ReasoningWhere(actions', "individual")
           team_reasoning == ReasoningWhere(actions', "team")
       IN reasoning_results' =
            IF len(indiv_reasoning) > 1 /\ len(team_reasoning) > 1
            THEN ("indiv_mean" :> mean(indiv_reasoning)) @@
                 ("team_mean" :> mean(team_reasoning)) @@
                 TwoSample(indiv_reasoning, team_reasoning)
            ELSE None
    /\ Goto("model_anova")
    /\ UNCHANGED <<participants, loaded_actions, loaded_participants, statsmodels,
                   action_counts, mode_results, model_results, anova_table,
                   completion, latex_table>>

\* f_oneway needs two groups: none raises in every scipy; one raises in
\* scipy >= 1.6 and gives NaN before
model_anova ==
    /\ pc = "model_anova"
    /\ LET counts == groupby_size(actions, {"participantId", "model"})
           groups == {ActionsWhere(counts, "model", m) : m \in Levels(counts, "model")}
           k == Cardinality(Levels(counts, "model"))
       IN \E raises \in (IF k = 0 THEN {TRUE} ELSE IF k = 1 THEN BOOLEAN ELSE {FALSE}) :
            IF raises
            THEN Raise("TypeError") /\ UNCHANGED model_results
            ELSE /\ model_results' =
                      IF k = 1 THEN [kind |-> "dict", f |-> nan, p |-> nan]
                      ELSE f_oneway(groups)
                 /\ Goto("two_way_anova")
    /\ UNCHANGED <<participants, actions, loaded_actions, loaded_participants,
                   statsmodels, action_counts, mode_results, reasoning_results,
                   anova_table, completion, latex_table>>

\* the mode x model cells of a count table that hold no unit
EmptyCells(counts) ==
    {c \in Levels(counts, "mode") \X Levels(counts, "model") :
        ~ \E r \in counts : r.mode = c[1] /\ r.model = c[2]}

\* a design the fitted model cannot separate: a factor with one level, an
\* empty cell, or no residual degree of freedom
Degenerate(counts) ==
    \/ Cardinality(Levels(counts, "mode")) < 2
    \/ Cardinality(Levels(counts, "model")) < 2
    \/ EmptyCells(counts) # {}
    \/ Cardinality(counts)
         <= Cardinality(Levels(counts, "mode")) * Cardinality(Levels(counts, "model"))

\* sm.stats.anova_lm(ols('actions ~ C(mode) * C(model)').fit(), typ=2): the
\* table is returned as the library computed it, one row per term
AnovaLm(counts) ==
    [kind |-> "DataFrame",
     index |-> <<"C(mode)", "C(model)", "C(mode):C(model)", "Residual">>,
     n_obs |-> Cardinality(counts)]

\* the import succeeds or raises ImportError, which is caught (line 195); the
\* library's own errors on a degenerate design are not caught
two_way_anova ==
    /\ pc = "two_way_anova"
    /\ LET counts == groupby_size(actions, {"participantId", "mode", "model"})
       IN \E imported \in BOOLEAN :
            IF ~ imported
            THEN /\ statsmodels' = "ImportError"
                 /\ anova_table' = None
                 /\ Goto("plot_action_counts_by_mode")
            ELSE /\ statsmodels' = "imported"
                 /\ \E raises \in (IF Degenerate(counts) THEN BOOLEAN ELSE {FALSE}) :
                      IF raises
                      THEN Raise("ValueError") /\ UNCHANGED anova_table
                      ELSE /\ anova_table' = AnovaLm(counts)
                           /\ Goto("plot_action_counts_by_mode")
    /\ UNCHANGED <<participants, actions, loaded_actions, loaded_participants,
                   action_counts, mode_results, reasoning_results, model_results,
                   completion, latex_table>>

\* set_xticklabels is given two labels; Matplotlib (3.3 and later) raises when
\* the summary does not have exactly two modes
plot_action_counts_by_mode ==
    /\ pc = "plot_action_counts_by_mode"
    /\ LET counts == groupby_size(actions, {"participantId", "mode"})
       IN \E raises \in (IF Cardinality(Levels(counts, "mode")) # 2
                         THEN BOOLEAN ELSE {FALSE}) :
            IF raises THEN Raise("ValueError")
            ELSE Goto("plot_reasoning_length_comparison")
    /\ UNCHANGED <<participants, actions, loaded_actions, loaded_participants,
                   statsmodels, action_counts, mode_results, reasoning_results,
                   model_results, anova_table, completion, latex_table>>

plot_reasoning_length_comparison ==
    /\ pc = "plot_reasoning_length_comparison"
    /\ actions' = WithReasoningLen(actions)
    /\ Goto("plot_heatmap_by_condition")
    /\ UNCHANGED <<participants, loaded_actions, loaded_participants, statsmodels,
                   action_counts, mode_results, reasoning_results, model_results,
                   anova_table, completion, latex_table>>

\* one heatmap per mode; drawing the empty pivot table of a mode without
\* actions may raise in the plotting library
plot_heatmap_by_condition ==
    /\ pc = "plot_heatmap_by_condition"
    /\ LET counts == groupby_size(actions, {"participantId", "mode", "model"})
       IN \E raises \in (IF \E m \in Range(modes) : m \notin Levels(counts, "mode")
                         THEN BOOLEAN ELSE {FALSE}) :
            IF raises THEN Raise("ValueError")
            ELSE Goto("plot_completion_rates")
    /\ UNCHANGED <<participants, actions, loaded_actions, loaded_participants,
                   statsmodels, action_counts, mode_results, reasoning_results,
                   model_results, anova_table, completion, latex_table>>

\* the sessions of one condition
ConditionSessions(mode, model) ==
    {i \in DOMAIN participants :
        participants[i].mode = mode /\ participants[i].model = model}

\* a completion rate over the sessions that were not excluded
CompletionRateOfIncluded(rows) ==
    LET included == {i \in rows : participants[i].state # "EXCLUDED"}
    IN IF included = {} THEN Num(0, 1)
       ELSE Num(100 * Cardinality(Completed(rows)), Cardinality(included))

\* (x['state'] == 'COMPLETE').mean() * 100 over the sessions in rows
CompletionRate(rows) == Num(100 * Cardinality(Completed(rows)), Cardinality(rows))

\* participants.groupby(['mode', 'model']).apply(...): one row per condition
\* that has a session
CompletionTable ==
    {[mode |-> participants[i].mode, model |-> participants[i].model,
      completed |-> Cardinality(Completed(ConditionSessions(participants[i].mode,
                                                            participants[i].model))),
      total |-> Cardinality(ConditionSessions(participants[i].mode, participants[i].model)),
      rate |-> CompletionRate(ConditionSessions(participants[i].mode, participants[i].model))]
     : i \in ValidRows(participants, {"mode", "model"})}

\* lines 304-307: .values[0] of the rate of every model in either mode; a
\* model without a row in one of the modes gives an empty array
plot_completion_rates ==
    /\ pc = "plot_completion_rates"
    /\ completion' = DataFrame(CompletionTable)
    /\ IF \E m \in Levels(CompletionTable, "model"), mo \in Range(modes) :
            ~ \E r \in CompletionTable : r.mode = mo /\ r.model = m
       THEN Raise("IndexError")
       ELSE Goto("generate_latex_table")
    /\ UNCHANGED <<participants, actions, loaded_actions, loaded_participants,
                   statsmodels, action_counts, mode_results, reasoning_results,
                   model_results, anova_table, latex_table>>

\* f"{x:.0f}" of the rational n/d >= 0: nearest integer, ties to even
RoundHalfEven(n, d) ==
    LET q == n \div d
        r == n % d
    IN IF 2 * r < d THEN q
       ELSE IF 2 * r > d THEN q + 1
       ELSE IF q % 2 = 0 THEN q ELSE q + 1

\* lines 355-366: the row of one model and mode
LatexRow(counts, model, mode) ==
    LET subset == [r \in {q \in counts : q.model = model /\ q.mode = mode} |-> r.actions]
        p_subset == ConditionSessions(mode, model)
        n == len(subset)
        comp_rate == IF Cardinality(p_subset) > 0 THEN CompletionRate(p_subset)
                     ELSE Num(0, 1)
    IN [model |-> model, mode |-> mode, n |-> n,
        mean |-> IF n > 0 THEN mean(subset) ELSE Num(0, 1),
        std |-> IF n > 0 THEN std(subset) ELSE Num(0, 1),
        comp_rate |-> comp_rate,
        completion_text |-> RoundHalfEven(comp_rate.num, comp_rate.den)]

generate_latex_table ==
    /\ pc = "generate_latex_table"
    /\ LET counts == groupby_size(actions, {"participantId", "mode", "model"})
       IN latex_table' = [kind |-> "str",
                          rows |-> {LatexRow(counts, model, mode) :
                                      model \in Range(models), mode \in Range(modes)}]
    /\ Goto("done")
    /\ UNCHANGED <<participants, actions, loaded_actions, loaded_participants,
                   statsmodels, action_counts, mode_results, reasoning_results,
                   model_results, anova_table, completion>>

Next ==
    \/ descriptive_statistics
    \/ mode_comparison_ttest
    \/ reasoning_quality_analysis
    \/ model_anova
    \/ two_way_anova
    \/ plot_action_counts_by_mode
    \/ plot_reasoning_length_comparison
    \/ plot_heatmap_by_condition
    \/ plot_completion_rates
    \/ generate_latex_table

Spec == Init /\ [][Next]_vars

---------------------------------------------------------------------------
(* Properties *)

\* the two samples of each two-sample comparison, from the tables
IndivCounts == ActionsWhere(action_counts.rows, "mode", "individual")
TeamCounts == ActionsWhere(action_counts.rows, "mode", "team")
IndivReasoning == ReasoningWhere(WithReasoningLen(loaded_actions), "individual")
TeamReasoning == ReasoningWhere(WithReasoningLen(loaded_actions), "team")

ModeTestRan == mode_results.kind = "dict"
ReasoningRan ==
    pc \notin {"descriptive_statistics", "mode_comparison_ttest",
               "reasoning_quality_analysis"}
    /\ ~ (pc = "aborted" /\ error = "ZeroDivisionError")

GroupKeys ==
    {{"participantId", "mode"}, {"participantId", "model"},
     {"participantId", "mode", "model"}}

\* C1: for each aggregation by unit and factors, the record counts of the
\* produced groups, plus the tracked count of excluded records, add up to the
\* number of input records. The code tracks no excluded count (the group-by
\* returns the groups only), so the groups alone have to account for every
\* record.
C1_GroupingIsPartition ==
    /\ action_counts.kind = "DataFrame" =>
          GroupedRecords(action_counts.rows) = Len(loaded_actions)
    /\ ReasoningRan =>
          \A keys \in GroupKeys :
              GroupedRecords(groupby_size(actions, keys)) = Len(loaded_actions)

\* C2: once non-empty tables have loaded, no run of main() is ended by an
\* uncaught exception before the later stages.
C2_RunNeverAborts ==
    (Len(loaded_participants) > 0 /\ Len(loaded_actions) > 0) => pc # "aborted"

\* C3: over a non-empty action table, a two-sample comparison with a sample
\* of fewer than 2 observations yields the insufficient-data outcome, never a
\* dict of t, p and d.
C3_InsufficientDataOutcome ==
    Len(loaded_actions) > 0 =>
        /\ ModeTestRan => (len(IndivCounts) >= 2 /\ len(TeamCounts) >= 2)
        /\ reasoning_results.kind = "dict" =>
              (len(IndivReasoning) >= 2 /\ len(TeamReasoning) >= 2)

\* the cases in which Cohen's d of two non-empty groups is undefined:
\* n1 + n2 <= 2 or a pooled standard deviation of 0
UndefinedD(a, b) ==
    /\ len(a) >= 1 /\ len(b) >= 1
    /\ \/ len(a) + len(b) <= 2
       \/ pooled_std(a, b).kind = "root" /\ pooled_std(a, b).num = 0

Unflagged(x) == x.kind \in {"nan", "inf"}

\* C4: when Cohen's d is computed for two non-empty groups with n1 + n2 <= 2
\* or with a pooled standard deviation of 0, the 'd' of the returned result is
\* never an unflagged infinity or NaN.
C4_NoUnflaggedD ==
    /\ (ModeTestRan /\ UndefinedD(IndivCounts, TeamCounts)) => ~ Unflagged(mode_results.d)
    /\ (reasoning_results.kind = "dict" /\ UndefinedD(IndivReasoning, TeamReasoning))
          => ~ Unflagged(reasoning_results.d)

IsNumberZero(x) == x.kind = "num" /\ x.num = 0

\* C5: a condition of the results table with n = 0 reports its mean and
\* its standard deviation as a no-data marker and never as the number 0, and
\* so does the completion rate of a condition that has no session.
C5_NoDataMarked ==
    latex_table.kind = "str" =>
        \A row \in latex_table.rows :
            /\ row.n = 0 => (~ IsNumberZero(row.mean) /\ ~ IsNumberZero(row.std))
            /\ ConditionSessions(row.mode, row.model) = {} => ~ IsNumberZero(row.comp_rate)

ObservedCells == groupby_size(loaded_actions, {"participantId", "mode", "model"})

\* C6: once two_way_anova has run, with the statistics library installed, on
\* a design with an empty mode x model cell, its result flags the design: it
\* is neither an ordinary computed table nor an unflagged None.
C6_EmptyCellFlagged ==
    (statsmodels = "imported" /\ EmptyCells(ObservedCells) # {})
        => anova_table.kind \notin {"DataFrame", "None"}

\* C7: the value two_way_anova returns when the statistics library is missing
\* differs from the value returned for an insufficient-data result.
C7_UnavailableDistinct ==
    (statsmodels = "ImportError"
     /\ (len(IndivReasoning) < 2 \/ len(TeamReasoning) < 2))
        => anova_table # reasoning_results

\* C8: the session table and the action table hold the columns and values
\* they were loaded with, after every stage.
C8_InputsUnchanged ==
    actions = loaded_actions /\ participants = loaded_participants

\* the sessions of a condition, and those among them whose state is COMPLETE,
\* counted from the loaded table
SessionCount(mode, model) ==
    Cardinality({i \in DOMAIN loaded_participants :
        loaded_participants[i].mode = mode /\ loaded_participants[i].model = model})
CompleteCount(mode, model) ==
    Cardinality({i \in DOMAIN loaded_participants :
        /\ loaded_participants[i].mode = mode /\ loaded_participants[i].model = model
        /\ loaded_participants[i].state = "COMPLETE"})

IsRateOf(rate, mode, model) ==
    /\ rate.kind = "num"
    /\ rate.num * SessionCount(mode, model) = 100 * CompleteCount(mode, model) * rate.den

Scenario ==
    <<[participantId |-> 1, mode |-> "individual", model |-> models[1], state |-> "COMPLETE"],
      [participantId |-> 2, mode |-> "team", model |-> models[1], state |-> "COMPLETE"],
      [participantId |-> 3, mode |-> "team", model |-> models[1], state |-> "EXCLUDED"]>>

\* C9: for every condition with at least one session, the completion rate of
\* the completion chart and of the results table is 100 * (sessions of the
\* condition whose state is COMPLETE) / (all sessions of the condition), the
\* table printing it rounded to a whole percent; for the scenario's sessions
\* the rate of team x model A is 50.
C9_CompletionRate ==
    /\ completion.kind = "DataFrame" =>
          \A r \in completion.rows :
              /\ r.total = SessionCount(r.mode, r.model)
              /\ r.completed = CompleteCount(r.mode, r.model)
              /\ IsRateOf(r.rate, r.mode, r.model)
    /\ latex_table.kind = "str" =>
          \A row \in latex_table.rows :
              SessionCount(row.mode, row.model) > 0 =>
                  /\ IsRateOf(row.comp_rate, row.mode, row.model)
                  /\ 2 * SessionCount(row.mode, row.model) * row.completion_text
                       - 200 * CompleteCount(row.mode, row.model)
                     \in (-SessionCount(row.mode, row.model))..SessionCount(row.mode, row.model)
                  /\ (loaded_participants = Scenario /\ row.mode = "team"
                      /\ row.model = models[1])
                        => (row.comp_rate.num = 50 * row.comp_rate.den
                            /\ row.completion_text = 50)

C9_Witness ==
    /\ pc = "done"
    /\ loaded_participants = Scenario
    /\ \E r \in completion.rows :
          r.mode = "team" /\ r.model = models[1] /\ r.total = 2 /\ r.completed = 1
    /\ \E row \in latex_table.rows :
          row.mode = "team" /\ row.model = models[1] /\ row.completion_text = 50

\* the distinct participantId values of the action records of a condition
UnitsWithActions(mode, model) ==
    {loaded_actions[i].participantId :
        i \in {j \in DOMAIN loaded_actions :
                 loaded_actions[j].mode = mode /\ loaded_actions[j].model = model}}

\* C10: every per-unit action count is at least 1, a unit without action
\* records has no row in the aggregation, and the N of every row of the
\* results table is at most the number of distinct participantId values of
\* the condition's action records (whatever the number of its sessions).
C10_CountsAtLeastOne ==
    /\ action_counts.kind = "DataFrame" =>
          \A r \in action_counts.rows :
              /\ r.actions >= 1
              /\ \E i \in DOMAIN loaded_actions :
                    loaded_actions[i].participantId = r.participantId
    /\ latex_table.kind = "str" =>
          \A row \in latex_table.rows :
              row.n <= Cardinality(UnitsWithActions(row.mode, row.model))

\* a finished run whose table has a row with fewer measured units than the
\* condition has sessions
C10_Witness ==
    /\ pc = "done"
    /\ \E row \in latex_table.rows :
          /\ row.n >= 1
          /\ row.n < SessionCount(row.mode, row.model)
          /\ row.n = Cardinality(UnitsWithActions(row.mode, row.model))
    /\ \E r \in action_counts.rows : r.actions >= 1

====
